---------------------------- MODULE Spec2Model ----------------------------
(***************************************************************************)
(* OCR comparison harness (main.py, utils/file_utils.py, utils/metrics.py, *)
(* app/<provider>/extract.py) as a state machine.                          *)
(*                                                                         *)
(* Text is a sequence of string tokens.  File names are sequences of       *)
(* single characters, so that suffix, stem, lower() and ordering work on   *)
(* characters.  The --providers argument is a sequence of chunks: the      *)
(* separators "," and " " and whole words.  A file's content is the        *)
(* sequence of tokens written to it, with "\n" as the newline token.       *)
(***************************************************************************)
EXTENDS Integers, Sequences, FiniteSets, TLC

VARIABLES
    args,            \* parsed command line: [providers, input_file]
    input_dir,       \* the input directory: [exists, entries]
    runs_dirs,       \* run ids that exist under <output_dir>/runs/
    md_files,        \* markdown files: [run, provider, stem] -> content
    run_metrics,     \* run-scoped metrics files: run id -> content
    global_metrics,  \* <output_dir>/metrics.txt: [exists, content]
    clock,           \* wall clock, in seconds
    io_faults,       \* whether file writes of a pairing may raise OSError
    pc,              \* position of main
    provider_names,  \* main's provider_names
    run_id,          \* main's run_id
    pdf_paths,       \* main's pdf_paths (file names inside input_dir)
    i,               \* index of the outer loop, over pdf_paths
    j,               \* index of the inner loop, over provider_names
    raised,          \* the exception that left main, [type, msg]
    calls,           \* history: the adapter invocations made so far
    allocated,       \* history: the create_run_output_dir calls made so far
    formatted        \* a format_metrics_line call: arguments and result

vars == <<args, input_dir, runs_dirs, md_files, run_metrics, global_metrics,
          clock, io_faults, pc, provider_names, run_id, pdf_paths, i, j,
          raised, calls, allocated, formatted>>

(***************************************************************************)
(* Bounds of the model.                                                    *)
(***************************************************************************)
MaxRawLen == 4
MaxEntries == 2
MaxListEntries == 3
MaxClock == 1
MaxPre == 2
MaxCalls == 3

(***************************************************************************)
(* Sequences of tokens.                                                    *)
(***************************************************************************)
IsPrefix(s, t) == Len(s) <= Len(t) /\ SubSeq(t, 1, Len(s)) = s

EndsWith(t, s) == Len(s) <= Len(t) /\ SubSeq(t, Len(t) - Len(s) + 1, Len(t)) = s

Range(s) == {s[k] : k \in DOMAIN s}

Count(s, x) == Cardinality({k \in DOMAIN s : s[k] = x})

SeqsUpTo(S, n) == UNION {[1..k -> S] : k \in 0..n}

SubsetsUpTo(S, n) == {T \in SUBSET S : Cardinality(T) <= n}


(***************************************************************************)
(* Exceptions and results.  A call returns [type, msg, value]: type "None" *)
(* when it returned value, otherwise the exception it raised.              *)
(***************************************************************************)
NoError == [type |-> "None", msg |-> <<>>]

Return(v) == [type |-> "None", msg |-> <<>>, value |-> v]

Raise(t, m) == [type |-> t, msg |-> m, value |-> <<>>]

ErrorOf(r) == [type |-> r.type, msg |-> r.msg]

\* str(error): the message the exception was built with
Str(error) == error.msg

(***************************************************************************)
(* File names: characters, pathlib's suffix and stem, str.lower and the    *)
(* ordering of paths.                                                      *)
(***************************************************************************)
\* code points
Ord(c) ==
    CASE c = "." -> 46 [] c = "B" -> 66 [] c = "D" -> 68 [] c = "F" -> 70
      [] c = "P" -> 80 [] c = "a" -> 97 [] c = "b" -> 98 [] c = "d" -> 100
      [] c = "f" -> 102 [] c = "n" -> 110 [] c = "p" -> 112 [] c = "t" -> 116
      [] c = "x" -> 120

LowerChar(c) ==
    CASE c = "B" -> "b" [] c = "D" -> "d" [] c = "F" -> "f" [] c = "P" -> "p"
      [] OTHER -> c

LowerName(name) == [k \in DOMAIN name |-> LowerChar(name[k])]

\* name.rfind("."), 1-based; 0 when the name has no dot
RFindDot(name) ==
    LET dots == {k \in DOMAIN name : name[k] = "."}
    IN  IF dots = {} THEN 0 ELSE CHOOSE k \in dots : \A m \in dots : m <= k

\* PurePath.suffix: from the last dot, unless that dot is the first or the
\* last character of the name
Suffix(name) ==
    LET p == RFindDot(name)
    IN  IF 1 < p /\ p < Len(name) THEN SubSeq(name, p, Len(name)) ELSE <<>>

\* PurePath.stem
Stem(name) ==
    LET p == RFindDot(name)
    IN  IF 1 < p /\ p < Len(name) THEN SubSeq(name, 1, p - 1) ELSE name

\* str comparison, as paths of one directory compare
RECURSIVE NameLess(_, _)
NameLess(a, b) ==
    IF a = <<>> THEN b # <<>>
    ELSE IF b = <<>> THEN FALSE
    ELSE IF Ord(Head(a)) # Ord(Head(b)) THEN Ord(Head(a)) < Ord(Head(b))
    ELSE NameLess(Tail(a), Tail(b))

\* sorted(names)
RECURSIVE SortedNames(_)
SortedNames(S) ==
    IF S = {} THEN <<>>
    ELSE LET m == CHOOSE x \in S : \A y \in S \ {x} : NameLess(x, y)
         IN  <<m>> \o SortedNames(S \ {m})

DotPdf == <<".", "p", "d", "f">>

\* the names a directory entry may have
Names ==
    { <<"a", ".", "p", "d", "f">>,            \* a.pdf
      <<"a", ".", "P", "D", "F">>,            \* a.PDF
      <<"b", ".", "P", "d", "f">>,            \* b.Pdf
      <<"B", ".", "p", "d", "f">>,            \* B.pdf
      <<"n", ".", "t", "x", "t">>,            \* n.txt
      <<"a", ".", "p", "d", "f", ".", "t", "x", "t">>,   \* a.pdf.txt
      <<".", "p", "d", "f">>,                 \* .pdf
      <<"p", "d", "f">> }                     \* pdf

Kinds == {"file", "dir"}

\* a directory holding the names of `names`, each a file or a directory
DirsOver(names, n) ==
    UNION { { [exists |-> TRUE,
               entries |-> {[name |-> x, kind |-> k[x]] : x \in T}] :
              k \in [T -> Kinds] } : T \in SubsetsUpTo(names, n) }

AbsentDir == [exists |-> FALSE, entries |-> {}]

EntryNames(dir) == {e.name : e \in dir.entries}

IsFile(dir, name) == [name |-> name, kind |-> "file"] \in dir.entries

\* list_pdfs(input_dir)
ListPdfs(dir) ==
    IF ~dir.exists
    THEN Raise("FileNotFoundError", <<"Input directory does not exist: ", "input_dir">>)
    ELSE Return(SortedNames({x \in EntryNames(dir) : LowerName(Suffix(x)) = DotPdf}))

\* resolve_pdf_paths without the suffix check: a mutant of ResolvePdfPaths
ResolvePdfPathsAnySuffix(dir, input_file) ==
    IF input_file = <<>> THEN ListPdfs(dir)
    ELSE IF ~(input_file \in EntryNames(dir)) \/ ~IsFile(dir, input_file)
    THEN Raise("FileNotFoundError", <<"Input PDF does not exist: ">> \o input_file)
    ELSE Return(<<input_file>>)

\* resolve_pdf_paths(input_dir, input_file); input_file <<>> is None or ""
ResolvePdfPaths(dir, input_file) ==
    IF input_file = <<>> THEN ListPdfs(dir)
    ELSE IF ~(input_file \in EntryNames(dir)) \/ ~IsFile(dir, input_file)
    THEN Raise("FileNotFoundError", <<"Input PDF does not exist: ">> \o input_file)
    ELSE IF LowerName(Suffix(input_file)) # DotPdf
    THEN Raise("ValueError", <<"Input file must be a PDF: ">> \o input_file)
    ELSE Return(<<input_file>>)

(***************************************************************************)
(* Provider names: str.split(","), str.strip, str.lower on chunks.         *)
(***************************************************************************)
\* PROVIDERS, main.py: the registry's keys
PROVIDERS == {<<"mistral">>, <<"landing_ai">>, <<"openai">>, <<"gemini">>, <<"marker">>}

\* the chunks a --providers argument is made of
RawTokens == {",", " ", "mistral", "Mistral", "gemini", "zzz"}

LowerWord(w) == IF w = "Mistral" THEN "mistral" ELSE w

Lower(item) == [k \in DOMAIN item |-> LowerWord(item[k])]

\* str.split(","): the pieces between the commas, empty pieces kept
RECURSIVE Split(_)
Split(s) ==
    LET commas == {k \in DOMAIN s : s[k] = ","}
    IN  IF commas = {} THEN <<s>>
        ELSE LET c == CHOOSE k \in commas : \A m \in commas : k <= m
             IN  <<SubSeq(s, 1, c - 1)>> \o Split(SubSeq(s, c + 1, Len(s)))

\* str.strip(): leading and trailing blanks removed
RECURSIVE Strip(_)
Strip(item) ==
    IF item = <<>> THEN <<>>
    ELSE IF Head(item) = " " THEN Strip(Tail(item))
    ELSE IF item[Len(item)] = " " THEN Strip(SubSeq(item, 1, Len(item) - 1))
    ELSE item

\* ", ".join(items)
RECURSIVE Join(_)
Join(items) ==
    IF items = <<>> THEN <<>>
    ELSE IF Len(items) = 1 THEN Head(items)
    ELSE Head(items) \o <<", ">> \o Join(Tail(items))

\* parse_provider_names without the lower(): a mutant of ParseProviderNames
ParseProviderNamesNoLower(raw_providers) ==
    LET NonBlank(item) == Strip(item) # <<>>
        kept == SelectSeq(Split(raw_providers), NonBlank)
        requested == [k \in DOMAIN kept |-> Strip(kept[k])]
        Unknown(name) == name \notin PROVIDERS
        unknown == SelectSeq(requested, Unknown)
    IN  IF requested = <<>>
        THEN Raise("ValueError", <<"No providers were selected. Pass at least one provider.">>)
        ELSE IF unknown # <<>>
        THEN Raise("ValueError", <<"Unsupported providers: ">> \o Join(unknown))
        ELSE Return(requested)

\* parse_provider_names(raw_providers)
ParseProviderNames(raw_providers) ==
    LET NonBlank(item) == Strip(item) # <<>>
        kept == SelectSeq(Split(raw_providers), NonBlank)
        requested == [k \in DOMAIN kept |-> Lower(Strip(kept[k]))]
        Unknown(name) == name \notin PROVIDERS
        unknown == SelectSeq(requested, Unknown)
    IN  IF requested = <<>>
        THEN Raise("ValueError", <<"No providers were selected. Pass at least one provider.">>)
        ELSE IF unknown # <<>>
        THEN Raise("ValueError", <<"Unsupported providers: ">> \o Join(unknown))
        ELSE Return(requested)

(***************************************************************************)
(* Numbers as text.                                                        *)
(***************************************************************************)
Digit(d) ==
    CASE d = 0 -> "0" [] d = 1 -> "1" [] d = 2 -> "2" [] d = 3 -> "3"
      [] d = 4 -> "4" [] d = 5 -> "5" [] d = 6 -> "6" [] d = 7 -> "7"
      [] d = 8 -> "8" [] d = 9 -> "9"

\* str(n) of a natural number
RECURSIVE DigitsOf(_)
DigitsOf(n) == IF n < 10 THEN <<Digit(n)>> ELSE DigitsOf(n \div 10) \o <<Digit(n % 10)>>

\* f"{n:0<w>d}": zero-padded to at least w digits
RECURSIVE Pad(_, _)
Pad(n, w) == IF Len(DigitsOf(n)) >= w THEN DigitsOf(n) ELSE <<"0">> \o Pad(n, w - 1)

\* f"{float(duration):.3f}" of a duration held in milliseconds
Fixed3(ms) == DigitsOf(ms \div 1000) \o <<".">> \o Pad(ms % 1000, 3)

\* datetime.now().strftime("%Y%m%d_%H%M%S"), `now` seconds after
\* 2024-01-01 00:00:00, within the first minute
Strftime(now) == <<"20240101_0000">> \o Pad(now, 2)

(***************************************************************************)
(* create_run_output_dir, main.py                                          *)
(***************************************************************************)
\* the while loop: run_id, then base_01, base_02, ... until unused
RECURSIVE Probe(_, _, _, _)
Probe(dirs, base_run_id, id, suffix) ==
    IF id \in dirs
    THEN Probe(dirs, base_run_id, base_run_id \o <<"_">> \o Pad(suffix, 2), suffix + 1)
    ELSE id

\* create_run_output_dir with an `if` for the `while`: a mutant
CreateRunOutputDirNoRetry(dirs, now) ==
    LET base_run_id == Strftime(now)
        id == IF base_run_id \in dirs THEN base_run_id \o <<"_">> \o Pad(1, 2)
              ELSE base_run_id
    IN  [run_id |-> id, dirs |-> dirs \cup {id}]

\* create_run_output_dir(output_dir): the run id and the directories under
\* runs/ when it returns
CreateRunOutputDir(dirs, now) ==
    LET base_run_id == Strftime(now)
        id == Probe(dirs, base_run_id, base_run_id, 1)
    IN  [run_id |-> id, dirs |-> dirs \cup {id}]

(***************************************************************************)
(* utils/metrics.py and utils/file_utils.py                                *)
(***************************************************************************)
NL == "\n"

NoFile == [exists |-> FALSE, content |-> <<>>]

\* dict.setdefault(key, value)
SetDefault(metrics, key, value) == metrics @@ (key :> value)

\* format_metrics_line writing cost before tokens and the model field
\* whether or not there is a model: a mutant of FormatMetricsLine
FormatMetricsLineReordered(pdf_name, metrics) ==
    LET provider == IF "provider" \in DOMAIN metrics THEN metrics["provider"]
                    ELSE <<"unknown">>
        duration_value == IF "duration_sec" \in DOMAIN metrics
                          THEN Fixed3(metrics["duration_sec"]) \o <<"s">>
                          ELSE <<"n/a">>
        tokens == IF "tokens" \in DOMAIN metrics THEN DigitsOf(metrics["tokens"])
                  ELSE <<"n/a">>
        cost == IF "estimated_cost" \in DOMAIN metrics THEN metrics["estimated_cost"]
                ELSE <<"n/a">>
        model == IF "model" \in DOMAIN metrics THEN metrics["model"] ELSE <<"None">>
    IN  <<"provider=">> \o provider \o <<" pdf=">> \o pdf_name
        \o <<" time=">> \o duration_value \o <<" cost=">> \o cost
        \o <<" tokens=">> \o tokens \o <<" model=">> \o model

\* format_metrics_line(pdf_name, metrics); duration_sec is in milliseconds
FormatMetricsLine(pdf_name, metrics) ==
    LET provider == IF "provider" \in DOMAIN metrics THEN metrics["provider"]
                    ELSE <<"unknown">>
        duration_value == IF "duration_sec" \in DOMAIN metrics
                          THEN Fixed3(metrics["duration_sec"]) \o <<"s">>
                          ELSE <<"n/a">>
        tokens == IF "tokens" \in DOMAIN metrics THEN DigitsOf(metrics["tokens"])
                  ELSE <<"n/a">>
        cost == IF "estimated_cost" \in DOMAIN metrics THEN metrics["estimated_cost"]
                ELSE <<"n/a">>
        line == <<"provider=">> \o provider \o <<" pdf=">> \o pdf_name
                \o <<" time=">> \o duration_value \o <<" tokens=">> \o tokens
                \o <<" cost=">> \o cost
    IN  IF "model" \in DOMAIN metrics /\ metrics["model"] # <<>>
        THEN line \o <<" model=">> \o metrics["model"]
        ELSE line

\* append_metrics opening the file with "w": a mutant
AppendMetricsTruncating(file, line) ==
    [exists |-> TRUE, content |-> line \o <<NL>>]

\* append_metrics(path, line): the file at path when it returns
AppendMetrics(file, line) ==
    [exists |-> TRUE, content |-> file.content \o line \o <<NL>>]

\* save_markdown(path, content): the markdown files when it returns
SaveMarkdown(files, path, content) ==
    [p \in DOMAIN files \cup {path} |-> IF p = path THEN content ELSE files[p]]

(***************************************************************************)
(* Provider adapters, app/<provider>/extract.py                            *)
(***************************************************************************)
Implemented == {<<"mistral">>, <<"landing_ai">>}

\* how a call of the adapter may end
AdapterOutcomes(provider, is_file) ==
    IF provider \in Implemented /\ is_file THEN {"ok", "error"} ELSE {"error"}

\* durations a call may take, in milliseconds
Durations == {0, 1234}

\* the text the remote service extracts from a PDF
Markdown(provider, pdf_name) == <<"# ">> \o pdf_name \o <<" by ">> \o provider

DefaultModel(provider) ==
    IF provider = <<"mistral">> THEN <<"mistral-ocr-latest">> ELSE <<"default">>

\* pdf_to_markdown(pdf_path)
PdfToMarkdown(provider, pdf_name, is_file, outcome, duration) ==
    IF provider \notin Implemented
    THEN Raise("NotImplementedError", provider \o <<" provider is not implemented yet.">>)
    ELSE IF ~is_file
    THEN Raise("FileNotFoundError", <<"PDF not found: ">> \o pdf_name)
    ELSE IF outcome = "error"
    THEN Raise("RuntimeError", provider \o <<" request failed">>)
    ELSE Return([markdown |-> Markdown(provider, pdf_name),
                 metrics |-> [provider |-> provider,
                              model |-> DefaultModel(provider),
                              duration_sec |-> duration]])

(***************************************************************************)
(* run_provider_for_pdf, main.py                                           *)
(***************************************************************************)
OSError == [type |-> "OSError", msg |-> <<"[Errno 28] No space left on device">>]

\* which of the file writes of one pairing succeed: the markdown file, the
\* two appends of the try block, the two appends of the except block
AllWritesOk == [md |-> TRUE, run |-> TRUE, glob |-> TRUE, hrun |-> TRUE, hglob |-> TRUE]

IoOutcomes(faults) ==
    IF faults
    THEN [md : BOOLEAN, run : BOOLEAN, glob : BOOLEAN, hrun : BOOLEAN, hglob : BOOLEAN]
    ELSE {AllWritesOk}

\* the failure line without its error suffix: a mutant of FailedLine
FailedLineNoError(line, error) == line

\* f"{line} error={error}"
FailedLine(line, error) == line \o <<" error=">> \o Str(error)

MarkdownPath(rid, provider_name, pdf_name) ==
    [run |-> rid, provider |-> provider_name, stem |-> Stem(pdf_name)]

\* the except block: the files when it ends, the append_metrics calls that
\* returned (log) and the error that leaves the block
ExceptBlock(rid, provider_name, pdf_name, duration, io, md, runf, globf, log, error) ==
    LET failed_metrics == [run_id |-> rid, provider |-> provider_name,
                           duration_sec |-> duration, error |-> Str(error)]
        line == FormatMetricsLine(pdf_name, failed_metrics)
        text == FailedLine(line, error)
    IN  IF ~io.hrun
        THEN [md |-> md, runf |-> runf, globf |-> globf, log |-> log,
              caught |-> error, raised |-> OSError]
        ELSE IF ~io.hglob
        THEN [md |-> md, runf |-> AppendMetrics(runf, text), globf |-> globf,
              log |-> log \o <<[file |-> "run", line |-> text]>>,
              caught |-> error, raised |-> OSError]
        ELSE [md |-> md, runf |-> AppendMetrics(runf, text),
              globf |-> AppendMetrics(globf, text),
              log |-> log \o <<[file |-> "run", line |-> text],
                               [file |-> "global", line |-> text]>>,
              caught |-> error, raised |-> NoError]

\* run_provider_for_pdf(...): the markdown files and the two metrics files
\* when the call ends, the append_metrics calls that returned, the error
\* its except block caught and the error that left the call
RunProviderForPdf(rid, provider_name, pdf_name, is_file, outcome, duration, io, md, runf, globf) ==
    LET result == PdfToMarkdown(provider_name, pdf_name, is_file, outcome, duration)
        Except(m, r, g, l, e) ==
            ExceptBlock(rid, provider_name, pdf_name, duration, io, m, r, g, l, e)
    IN  IF result.type # "None" THEN Except(md, runf, globf, <<>>, ErrorOf(result))
        ELSE IF ~io.md THEN Except(md, runf, globf, <<>>, OSError)
        ELSE
          LET saved == SaveMarkdown(md, MarkdownPath(rid, provider_name, pdf_name),
                                    result.value.markdown)
              metrics == SetDefault(SetDefault(SetDefault(result.value.metrics,
                             "run_id", rid), "provider", provider_name),
                             "duration_sec", duration)
              line == FormatMetricsLine(pdf_name, metrics)
          IN  IF ~io.run THEN Except(saved, runf, globf, <<>>, OSError)
              ELSE IF ~io.glob
              THEN Except(saved, AppendMetrics(runf, line), globf,
                          <<[file |-> "run", line |-> line]>>, OSError)
              ELSE [md |-> saved, runf |-> AppendMetrics(runf, line),
                    globf |-> AppendMetrics(globf, line),
                    log |-> <<[file |-> "run", line |-> line],
                              [file |-> "global", line |-> line]>>,
                    caught |-> NoError, raised |-> NoError]

(***************************************************************************)
(* main, main.py                                                           *)
(***************************************************************************)
\* the loops that stop at the first provider of each PDF: a mutant
AdvanceLoopBreak(pi, pj, n_providers) == <<pi + 1, 1>>

\* for pdf_path in pdf_paths: for provider_name in provider_names: the
\* indices of the next pairing
AdvanceLoop(pi, pj, n_providers) ==
    IF pj < n_providers THEN <<pi, pj + 1>> ELSE <<pi + 1, 1>>

RunFile(rid) ==
    IF rid \in DOMAIN run_metrics
    THEN [exists |-> TRUE, content |-> run_metrics[rid]]
    ELSE NoFile

\* provider_names = parse_provider_names(args.providers)
MainParseProviders ==
    /\ pc = "start"
    /\ LET r == ParseProviderNames(args.providers)
       IN  IF r.type # "None"
           THEN /\ pc' = "aborted"
                /\ raised' = ErrorOf(r)
                /\ UNCHANGED provider_names
           ELSE /\ pc' = "parsed"
                /\ provider_names' = r.value
                /\ UNCHANGED raised
    /\ UNCHANGED <<formatted, args, input_dir, runs_dirs, md_files, run_metrics,
                   global_metrics, clock, io_faults, run_id, pdf_paths, i, j,
                   calls, allocated>>

\* ensure_dir(output_dir); run_id, run_output_dir = create_run_output_dir(output_dir)
MainCreateRunDir ==
    /\ pc = "parsed"
    /\ LET r == CreateRunOutputDir(runs_dirs, clock)
       IN  /\ runs_dirs' = r.dirs
           /\ run_id' = r.run_id
           /\ allocated' = Append(allocated, [run_id |-> r.run_id,
                                              before |-> runs_dirs, now |-> clock])
    /\ pc' = "allocated"
    /\ UNCHANGED <<formatted, args, input_dir, md_files, run_metrics, global_metrics, clock,
                   io_faults, provider_names, pdf_paths, i, j, raised, calls>>

\* pdf_paths = resolve_pdf_paths(...); return when there is none
MainResolvePdfs ==
    /\ pc = "allocated"
    /\ LET r == ResolvePdfPaths(input_dir, args.input_file)
       IN  IF r.type # "None"
           THEN /\ pc' = "aborted"
                /\ raised' = ErrorOf(r)
                /\ UNCHANGED <<pdf_paths, i, j>>
           ELSE IF r.value = <<>>
           THEN /\ pc' = "done"
                /\ UNCHANGED <<raised, pdf_paths, i, j>>
           ELSE /\ pc' = "loop"
                /\ pdf_paths' = r.value
                /\ i' = 1
                /\ j' = 1
                /\ UNCHANGED raised
    /\ UNCHANGED <<formatted, args, input_dir, runs_dirs, md_files, run_metrics,
                   global_metrics, clock, io_faults, provider_names, run_id,
                   calls, allocated>>

\* one iteration of the loops: run_provider_for_pdf for pdf_paths[i] and
\* provider_names[j]
MainRunPairing ==
    /\ pc = "loop"
    /\ i <= Len(pdf_paths)
    /\ LET pdf_name == pdf_paths[i]
           provider_name == provider_names[j]
           is_file == IsFile(input_dir, pdf_name)
       IN  \E outcome \in AdapterOutcomes(provider_name, is_file),
              duration \in Durations, io \in IoOutcomes(io_faults) :
             LET result == PdfToMarkdown(provider_name, pdf_name, is_file,
                                         outcome, duration)
                 r == RunProviderForPdf(run_id, provider_name, pdf_name, is_file,
                                        outcome, duration, io, md_files,
                                        RunFile(run_id), global_metrics)
                 next == AdvanceLoop(i, j, Len(provider_names))
             IN  /\ md_files' = r.md
                 /\ run_metrics' =
                      IF r.runf.exists
                      THEN [x \in DOMAIN run_metrics \cup {run_id} |->
                              IF x = run_id THEN r.runf.content ELSE run_metrics[x]]
                      ELSE run_metrics
                 /\ global_metrics' = r.globf
                 /\ calls' = Append(calls,
                       [pdf |-> pdf_name, provider |-> provider_name,
                        adapter_ok |-> result.type = "None",
                        markdown |-> IF result.type = "None"
                                     THEN result.value.markdown ELSE <<>>,
                        adapter_error |-> Str(ErrorOf(result)),
                        appends |-> r.log,
                        caught |-> r.caught.type # "None",
                        propagated |-> r.raised.type # "None"])
                 /\ IF r.raised.type # "None"
                    THEN /\ pc' = "aborted"
                         /\ raised' = r.raised
                         /\ UNCHANGED <<i, j>>
                    ELSE /\ i' = next[1]
                         /\ j' = next[2]
                         /\ UNCHANGED <<pc, raised>>
    /\ UNCHANGED <<formatted, args, input_dir, runs_dirs, clock, io_faults, provider_names,
                   run_id, pdf_paths, allocated>>

\* the loops are over: main logs the summary and returns
MainFinish ==
    /\ pc = "loop"
    /\ i > Len(pdf_paths)
    /\ pc' = "done"
    /\ UNCHANGED <<formatted, args, input_dir, runs_dirs, md_files, run_metrics,
                   global_metrics, clock, io_faults, provider_names, run_id,
                   pdf_paths, i, j, raised, calls, allocated>>

(***************************************************************************)
(* The run of main, with a file system whose writes succeed.               *)
(***************************************************************************)
APdf == <<"a", ".", "p", "d", "f">>

\* the --providers arguments of the runs
ProviderArgs ==
    { <<"mistral">>,
      <<"gemini", ",", " ", "Mistral">>,
      <<"mistral", ",", "mistral">>,
      <<"mistral", ",", "zzz">>,
      <<" ">> }

\* the --input-file arguments of the runs; <<>> when not given
InputFileArgs == { <<>>, APdf, <<"n", ".", "t", "x", "t">> }

\* the names in the input directory of the runs
InputNames ==
    { APdf, <<"a", ".", "P", "D", "F">>, <<"B", ".", "p", "d", "f">>,
      <<"n", ".", "t", "x", "t">> }

\* metrics.txt as an earlier run left it
EarlierMetrics ==
    AppendMetrics(NoFile, FormatMetricsLine(APdf,
        [provider |-> <<"mistral">>, duration_sec |-> 0]))

\* no format_metrics_line call under test
NoCall == [pdf_name |-> <<>>, metrics |-> <<>>, line |-> <<>>, returned |-> FALSE]

InitProcess ==
    /\ pc = "start"
    /\ provider_names = <<>>
    /\ run_id = <<>>
    /\ pdf_paths = <<>>
    /\ i = 0
    /\ j = 0
    /\ raised = NoError
    /\ calls = <<>>
    /\ allocated = <<>>
    /\ formatted = NoCall

InitFiles ==
    /\ args \in [providers : ProviderArgs, input_file : InputFileArgs]
    /\ input_dir \in {AbsentDir} \cup DirsOver(InputNames, MaxEntries)
    /\ runs_dirs \in {{}, {Strftime(0)}}
    /\ md_files = [p \in {} |-> <<>>]
    /\ run_metrics = [x \in {} |-> <<>>]
    /\ global_metrics \in {NoFile, EarlierMetrics}
    /\ clock = 0

Init == InitFiles /\ InitProcess /\ io_faults = FALSE

Next ==
    \/ MainParseProviders
    \/ MainCreateRunDir
    \/ MainResolvePdfs
    \/ MainRunPairing
    \/ MainFinish

Spec == Init /\ [][Next]_vars

(***************************************************************************)
(* The run of main, with file writes that may raise OSError.               *)
(***************************************************************************)
InitIO ==
    /\ args \in [providers : {<<"mistral">>, <<"gemini", ",", " ", "Mistral">>},
                 input_file : {<<>>}]
    /\ input_dir \in DirsOver(InputNames, MaxEntries)
    /\ runs_dirs = {}
    /\ md_files = [p \in {} |-> <<>>]
    /\ run_metrics = [x \in {} |-> <<>>]
    /\ global_metrics \in {NoFile, EarlierMetrics}
    /\ clock = 0
    /\ io_faults = TRUE
    /\ InitProcess

SpecIO == InitIO /\ [][Next]_vars

(***************************************************************************)
(* Properties of the run of main.                                          *)
(***************************************************************************)
LinesIn(content) == Count(content, NL)

\* the content of the run-scoped metrics file of this run
RunContent == IF run_id \in DOMAIN run_metrics THEN run_metrics[run_id] ELSE <<>>

LastCall == calls[Len(calls)]

\* the text `new` holds after the prefix `old`
Added(old, new) == SubSeq(new, Len(old) + 1, Len(new))

\* `new` is `old` followed by one line that starts with `head` and ends
\* with `tail`, and its newline
OneLineAdded(old, new, head, tail) ==
    /\ IsPrefix(old, new)
    /\ LET added == Added(old, new)
       IN  /\ added # <<>>
           /\ added[Len(added)] = NL
           /\ LinesIn(added) = 1
           /\ IsPrefix(head, added)
           /\ EndsWith(added, tail \o <<NL>>)

\* the lines `log` records for `file`, each with its newline
RECURSIVE LoggedText(_, _)
LoggedText(log, file) ==
    IF log = <<>> THEN <<>>
    ELSE (IF Head(log).file = file THEN Head(log).line \o <<NL>> ELSE <<>>)
         \o LoggedText(Tail(log), file)

\* C1: every invocation of run_provider_for_pdf, whatever the outcome of
\* the adapter and of the file writes, adds exactly one line to the
\* run-scoped metrics file and exactly one to the global metrics file.
C1_ExactlyOneLinePerInvocation ==
    [][Len(calls') = Len(calls) + 1 =>
          /\ LinesIn(RunContent') = LinesIn(RunContent) + 1
          /\ LinesIn(global_metrics'.content) = LinesIn(global_metrics.content) + 1]_vars

\* C2: when the adapter raises, the invocation leaves every markdown file
\* as it was and appends to the run-scoped and to the global metrics file
\* one line of that pairing that ends in " error=" and str(error).
C2_AdapterErrorRecorded ==
    [][(Len(calls') = Len(calls) + 1 /\ ~calls'[Len(calls')].adapter_ok) =>
          LET c == calls'[Len(calls')]
              head == <<"provider=">> \o c.provider \o <<" pdf=">> \o c.pdf
              tail == <<" error=">> \o c.adapter_error
          IN  /\ md_files' = md_files
              /\ OneLineAdded(RunContent, RunContent', head, tail)
              /\ OneLineAdded(global_metrics.content, global_metrics'.content,
                              head, tail)]_vars

\* an adapter raised after another had written its markdown file
C2_Witness ==
    /\ Len(calls) >= 2
    /\ calls[1].adapter_ok
    /\ ~LastCall.adapter_ok
    /\ DOMAIN md_files # {}
    /\ EndsWith(global_metrics.content, <<" error=">> \o LastCall.adapter_error \o <<NL>>)

\* the ordered cross product: PDFs outside, providers inside
CrossProduct(pdfs, providers) ==
    [k \in 1..(Len(pdfs) * Len(providers)) |->
        <<pdfs[((k - 1) \div Len(providers)) + 1],
          providers[((k - 1) % Len(providers)) + 1]>>]

Invocations == [k \in DOMAIN calls |-> <<calls[k].pdf, calls[k].provider>>]

\* C3: once inputs and providers are resolved, the adapter invocations are
\* the ordered cross product of the sorted PDFs and the providers in the
\* user's order: a prefix of it while main runs, all of it when main has
\* returned, whatever the adapters' outcomes.
C3_InvocationsAreCrossProduct ==
    /\ \A a, b \in DOMAIN pdf_paths : a < b => NameLess(pdf_paths[a], pdf_paths[b])
    /\ IsPrefix(Invocations, CrossProduct(pdf_paths, provider_names))
    /\ pc = "done" => Invocations = CrossProduct(pdf_paths, provider_names)

\* main returned after two PDFs and two providers, the first call failing
C3_Witness ==
    /\ pc = "done"
    /\ Len(pdf_paths) >= 2
    /\ Len(provider_names) >= 2
    /\ Len(calls) = 4
    /\ ~calls[1].adapter_ok
    /\ calls[2].adapter_ok

\* C4: after start-up no error leaves run_provider_for_pdf: adapter errors
\* and write failures alike end as a metrics line with an error field and
\* main goes on to return normally.
C4_NoErrorPropagates ==
    /\ \A k \in DOMAIN calls : ~calls[k].propagated
    /\ calls # <<>> => pc # "aborted"
    /\ Count(RunContent, " error=")
         = Cardinality({k \in DOMAIN calls : calls[k].caught})

\* C5: a start-up error aborts the run with nothing executed: no adapter
\* invoked, no run directory created, no markdown or metrics file written.
C5_StartupErrorLeavesNothing ==
    (pc = "aborted" /\ calls = <<>>) =>
        /\ allocated = <<>>
        /\ DOMAIN md_files = {}
        /\ DOMAIN run_metrics = {}

\* C7: when the run has finished, every pairing whose adapter call
\* succeeded has its markdown in <run_dir>/<provider>/<pdf_stem>.md.
C7_MarkdownPerPairing ==
    pc = "done" =>
        \A k \in DOMAIN calls :
            calls[k].adapter_ok =>
                LET path == MarkdownPath(run_id, calls[k].provider, calls[k].pdf)
                IN  /\ path \in DOMAIN md_files
                    /\ md_files[path] = calls[k].markdown

\* C8: the metrics files are append-only: a step of the run leaves every
\* metrics file's content as a prefix and adds to it exactly the lines
\* passed to append_metrics for that file, each followed by one newline;
\* no line holds a newline and no metrics file is removed.
C8_MetricsAppendOnly ==
    [][LET log == IF Len(calls') = Len(calls) + 1
                  THEN calls'[Len(calls')].appends ELSE <<>>
       IN  /\ global_metrics'.content
                = global_metrics.content \o LoggedText(log, "global")
           /\ global_metrics.exists => global_metrics'.exists
           /\ RunContent' = RunContent \o LoggedText(log, "run")
           /\ DOMAIN run_metrics \subseteq DOMAIN run_metrics'
           /\ \A x \in DOMAIN run_metrics \ {run_id} : run_metrics'[x] = run_metrics[x]
           /\ \A k \in DOMAIN log : NL \notin Range(log[k].line)]_vars

\* two lines were appended to a fresh run-scoped file and to a global file
\* that held an earlier line
C8_Witness ==
    /\ Len(calls) = 2
    /\ RunContent = calls[1].appends[1].line \o <<NL>> \o calls[2].appends[1].line \o <<NL>>
    /\ global_metrics.content
         = EarlierMetrics.content \o calls[1].appends[2].line \o <<NL>>
             \o calls[2].appends[2].line \o <<NL>>

(***************************************************************************)
(* create_run_output_dir called again and again on one output root, as a   *)
(* test calls it, while the clock advances.                                *)
(***************************************************************************)
\* the name of a run directory: the stamp, or the stamp and a suffix
RunIdText(now, k) ==
    IF k = 0 THEN Strftime(now) ELSE Strftime(now) \o <<"_">> \o Pad(k, 2)

\* run directories that may exist before the first call
PreDirs == {RunIdText(t, k) : t \in 0..MaxClock, k \in 0..MaxPre}

Tick ==
    /\ clock < MaxClock
    /\ clock' = clock + 1
    /\ UNCHANGED <<formatted, args, input_dir, runs_dirs, md_files, run_metrics,
                   global_metrics, io_faults, pc, provider_names, run_id,
                   pdf_paths, i, j, raised, calls, allocated>>

CallCreateRunOutputDir ==
    /\ pc = "test"
    /\ Len(allocated) < MaxCalls
    /\ LET r == CreateRunOutputDir(runs_dirs, clock)
       IN  /\ runs_dirs' = r.dirs
           /\ run_id' = r.run_id
           /\ allocated' = Append(allocated, [run_id |-> r.run_id,
                                              before |-> runs_dirs, now |-> clock])
    /\ UNCHANGED <<formatted, args, input_dir, md_files, run_metrics, global_metrics, clock,
                   io_faults, pc, provider_names, pdf_paths, i, j, raised, calls>>

InitAlloc ==
    /\ args = [providers |-> <<"mistral">>, input_file |-> <<>>]
    /\ input_dir = AbsentDir
    /\ runs_dirs \in SUBSET PreDirs
    /\ md_files = [p \in {} |-> <<>>]
    /\ run_metrics = [x \in {} |-> <<>>]
    /\ global_metrics = NoFile
    /\ clock = 0
    /\ io_faults = FALSE
    /\ pc = "test"
    /\ provider_names = <<>>
    /\ run_id = <<>>
    /\ pdf_paths = <<>>
    /\ i = 0
    /\ j = 0
    /\ raised = NoError
    /\ calls = <<>>
    /\ allocated = <<>>
    /\ formatted = NoCall

NextAlloc == Tick \/ CallCreateRunOutputDir

SpecAlloc == InitAlloc /\ [][NextAlloc]_vars

\* C6: every create_run_output_dir call returns a run id whose directory
\* did not exist before the call and exists after it, so the ids returned
\* are pairwise distinct; the id is the stamp of the call's second when
\* that is unused, otherwise the stamp with the lowest unused suffix among
\* _01, _02, ...
C6_RunIdsFreshAndLowest ==
    \A k \in DOMAIN allocated :
        LET a == allocated[k]
        IN  /\ a.run_id \notin a.before
            /\ a.run_id \in runs_dirs
            /\ \A m \in DOMAIN allocated : m # k => allocated[m].run_id # a.run_id
            /\ IF RunIdText(a.now, 0) \notin a.before
               THEN a.run_id = RunIdText(a.now, 0)
               ELSE \E n \in 1..(Cardinality(a.before) + 1) :
                        /\ a.run_id = RunIdText(a.now, n)
                        /\ \A m \in 1..(n - 1) : RunIdText(a.now, m) \in a.before

\* three calls within one second on a root that held the stamp's directory
\* and its _02: they return _01, _03 and _04
C6_Witness ==
    /\ Len(allocated) = 3
    /\ allocated[1].before = {RunIdText(0, 0), RunIdText(0, 2)}
    /\ allocated[1].run_id = <<"20240101_0000", "0", "0", "_", "0", "1">>
    /\ allocated[2].run_id = RunIdText(0, 3)
    /\ allocated[3].run_id = RunIdText(0, 4)

(***************************************************************************)
(* The run of main for every --providers argument up to MaxRawLen chunks.  *)
(***************************************************************************)
InitProviders ==
    /\ args \in [providers : SeqsUpTo(RawTokens, MaxRawLen), input_file : {<<>>}]
    /\ input_dir = [exists |-> TRUE, entries |-> {[name |-> APdf, kind |-> "file"]}]
    /\ runs_dirs = {}
    /\ md_files = [p \in {} |-> <<>>]
    /\ run_metrics = [x \in {} |-> <<>>]
    /\ global_metrics = NoFile
    /\ clock = 0
    /\ io_faults = FALSE
    /\ InitProcess

SpecProviders == InitProviders /\ [][Next]_vars

\* C9: when every entry of the --providers string, trimmed and lowercased,
\* is a known provider name, parse_provider_names returns those names in
\* input order; when an entry is an unknown name, and when no entry is
\* non-blank, it raises ValueError and returns nothing.
C9_ParseProviderNames ==
    LET entries == Split(args.providers)
        names == [k \in DOMAIN entries |-> Lower(Strip(entries[k]))]
        Rejected == /\ pc = "aborted"
                    /\ raised.type = "ValueError"
                    /\ provider_names = <<>>
    IN  pc # "start" =>
          /\ (\A k \in DOMAIN names : names[k] \in PROVIDERS)
                => (pc # "aborted" /\ provider_names = names)
          /\ (\E k \in DOMAIN names : names[k] # <<>> /\ names[k] \notin PROVIDERS)
                => Rejected
          /\ (\A k \in DOMAIN names : names[k] = <<>>) => Rejected

\* "gemini, Mistral" was parsed to gemini, mistral
C9_Witness ==
    /\ args.providers = <<"gemini", ",", " ", "Mistral">>
    /\ pc = "parsed"
    /\ provider_names = << <<"gemini">>, <<"mistral">> >>

(***************************************************************************)
(* The run of main for every input directory of up to MaxListEntries       *)
(* entries, with a provider that is not implemented.                       *)
(***************************************************************************)
InitList ==
    /\ args = [providers |-> <<"gemini">>, input_file |-> <<>>]
    /\ input_dir \in {AbsentDir} \cup DirsOver(Names, MaxListEntries)
    /\ runs_dirs = {}
    /\ md_files = [p \in {} |-> <<>>]
    /\ run_metrics = [x \in {} |-> <<>>]
    /\ global_metrics = NoFile
    /\ clock = 0
    /\ io_faults = FALSE
    /\ InitProcess

SpecList == InitList /\ [][Next]_vars

\* C10: for an existing directory list_pdfs returns exactly its files
\* whose extension is .pdf in any letter case, sorted by name; for a
\* directory that does not exist it raises FileNotFoundError.
C10_ListPdfsExactlyPdfFiles ==
    /\ pc \in {"loop", "done"} =>
          /\ input_dir.exists
          /\ Range(pdf_paths)
               = {x \in EntryNames(input_dir) :
                     IsFile(input_dir, x) /\ LowerName(Suffix(x)) = DotPdf}
          /\ \A a, b \in DOMAIN pdf_paths : a < b => NameLess(pdf_paths[a], pdf_paths[b])
    /\ (pc \in {"loop", "done", "aborted"} /\ ~input_dir.exists) =>
          (pc = "aborted" /\ raised.type = "FileNotFoundError")

(***************************************************************************)
(* The run of main with --input-file naming an entry, for every input      *)
(* directory of up to MaxListEntries entries.                              *)
(***************************************************************************)
InitResolve ==
    /\ args \in [providers : {<<"gemini">>}, input_file : Names]
    /\ input_dir \in {AbsentDir} \cup DirsOver(Names, MaxListEntries)
    /\ runs_dirs = {}
    /\ md_files = [p \in {} |-> <<>>]
    /\ run_metrics = [x \in {} |-> <<>>]
    /\ global_metrics = NoFile
    /\ clock = 0
    /\ io_faults = FALSE
    /\ InitProcess

SpecResolve == InitResolve /\ [][Next]_vars

\* main is past its resolve_pdf_paths call
Resolved == pc \in {"loop", "done", "aborted"}

\* C11: resolve_pdf_paths with a named input file returns exactly that one
\* file, and no other PDF of the directory, when the name is a regular file
\* of the directory whose extension is .pdf (in any letter case); it raises
\* FileNotFoundError when the directory has no entry of that name, and
\* ValueError when the name is a regular file whose extension is not .pdf.
C11_NamedFileResolved ==
    Resolved =>
        LET name == args.input_file
            is_pdf == LowerName(Suffix(name)) = DotPdf
        IN  /\ (IsFile(input_dir, name) /\ is_pdf) =>
                  (pc \in {"loop", "done"} /\ pdf_paths = <<name>>)
            /\ (name \notin EntryNames(input_dir)) =>
                  (pc = "aborted" /\ raised.type = "FileNotFoundError")
            /\ (IsFile(input_dir, name) /\ ~is_pdf) =>
                  (pc = "aborted" /\ raised.type = "ValueError")

\* a.pdf is named, B.pdf is a file of the directory too, and only a.pdf
\* was resolved
C11_Witness ==
    /\ args.input_file = APdf
    /\ IsFile(input_dir, APdf)
    /\ IsFile(input_dir, <<"B", ".", "p", "d", "f">>)
    /\ pc = "loop"
    /\ pdf_paths = <<APdf>>

(***************************************************************************)
(* format_metrics_line called once, as a test calls it, on a pdf name and  *)
(* a metrics mapping in which every key may be missing.                    *)
(***************************************************************************)
\* the keys of a metrics mapping; format_metrics_line reads the first five
MetricsKeys == {"provider", "duration_sec", "tokens", "estimated_cost", "model", "error"}

\* the values a key may have; durations in milliseconds, texts as tokens
\* (<<>> is the empty string)
MetricsValues ==
    [provider       |-> {<<"mistral">>, <<"landing_ai">>},
     duration_sec   |-> Durations \cup {5, 60000},
     tokens         |-> {0, 50},
     estimated_cost |-> {<<"0.02">>},
     model          |-> {<<>>, <<"mistral-ocr-latest">>},
     error          |-> {<<"boom">>}]

\* a key without an entry, <<>>, or with one of the values, <<v>>
Optional(values) == {<<>>} \cup {<<v>> : v \in values}

\* for every key either no entry or one of its values
MetricsChoices ==
    [provider       : Optional(MetricsValues.provider),
     duration_sec   : Optional(MetricsValues.duration_sec),
     tokens         : Optional(MetricsValues.tokens),
     estimated_cost : Optional(MetricsValues.estimated_cost),
     model          : Optional(MetricsValues.model),
     error          : Optional(MetricsValues.error)]

\* the metrics mappings: each key missing or bound to one of its values
MetricsMappings ==
    {[k \in {x \in MetricsKeys : c[x] # <<>>} |-> c[k][1]] : c \in MetricsChoices}

\* the pdf names of the calls
PdfNames == {APdf, <<"i", "n", "v", "o", "i", "c", "e", ".", "p", "d", "f">>}

CallFormatMetricsLine ==
    /\ pc = "test"
    /\ ~formatted.returned
    /\ formatted' = [formatted EXCEPT
                        !.line = FormatMetricsLine(formatted.pdf_name, formatted.metrics),
                        !.returned = TRUE]
    /\ UNCHANGED <<args, input_dir, runs_dirs, md_files, run_metrics,
                   global_metrics, clock, io_faults, pc, provider_names, run_id,
                   pdf_paths, i, j, raised, calls, allocated>>

InitFormat ==
    /\ args = [providers |-> <<"mistral">>, input_file |-> <<>>]
    /\ input_dir = AbsentDir
    /\ runs_dirs = {}
    /\ md_files = [p \in {} |-> <<>>]
    /\ run_metrics = [x \in {} |-> <<>>]
    /\ global_metrics = NoFile
    /\ clock = 0
    /\ io_faults = FALSE
    /\ pc = "test"
    /\ provider_names = <<>>
    /\ run_id = <<>>
    /\ pdf_paths = <<>>
    /\ i = 0
    /\ j = 0
    /\ raised = NoError
    /\ calls = <<>>
    /\ allocated = <<>>
    /\ formatted \in [pdf_name : PdfNames, metrics : MetricsMappings,
                       line : {<<>>}, returned : {FALSE}]

NextFormat == CallFormatMetricsLine

SpecFormat == InitFormat /\ [][NextFormat]_vars

\* C12: for every pdf name and every metrics mapping the line returned is
\* one line made of the fields provider=, pdf=, time=, tokens=, cost= in
\* this order, then possibly model=; time is the duration followed by s,
\* or n/a when there is no duration; tokens and cost are n/a when they are
\* missing; the model field is there, last, only when the mapping has a
\* model, and always when that model is not empty.
C12_FieldsInFixedOrder ==
    formatted.returned =>
        LET metrics == formatted.metrics
            Has(k) == k \in DOMAIN metrics
            providers == IF Has("provider") THEN {metrics["provider"]}
                         ELSE MetricsValues.provider \cup {<<"unknown">>}
            time == IF Has("duration_sec")
                    THEN Fixed3(metrics["duration_sec"]) \o <<"s">> ELSE <<"n/a">>
            tokens == IF Has("tokens") THEN DigitsOf(metrics["tokens"]) ELSE <<"n/a">>
            cost == IF Has("estimated_cost") THEN metrics["estimated_cost"] ELSE <<"n/a">>
            tails == IF ~Has("model") THEN {<<>>}
                     ELSE IF metrics["model"] = <<>>
                     THEN {<<>>, <<" model=">>}
                     ELSE {<<" model=">> \o metrics["model"]}
        IN  /\ NL \notin Range(formatted.line)
            /\ \E provider \in providers, tail \in tails :
                  formatted.line =
                      <<"provider=">> \o provider \o <<" pdf=">> \o formatted.pdf_name
                      \o <<" time=">> \o time \o <<" tokens=">> \o tokens
                      \o <<" cost=">> \o cost \o tail

\* the call of the repository's test, with every field and a model, and
\* its line
C12_Witness ==
    /\ formatted.returned
    /\ formatted.pdf_name = <<"i", "n", "v", "o", "i", "c", "e", ".", "p", "d", "f">>
    /\ DOMAIN formatted.metrics
         = {"provider", "duration_sec", "tokens", "estimated_cost", "model"}
    /\ formatted.metrics["duration_sec"] = 1234
    /\ formatted.line =
         <<"provider=", "mistral", " pdf=">> \o formatted.pdf_name
         \o <<" time=", "1", ".", "2", "3", "4", "s", " tokens=", "5", "0",
               " cost=", "0.02", " model=", "mistral-ocr-latest">>
=============================================================================
